---- MODULE Spec2Model ----
(***************************************************************************)
(* prompty: chronotype timestamps derived from a sunrise time given on the *)
(* command line, and the countdown loop that reports the upcoming one.     *)
(* Source: src/src/main.rs.                                                *)
(*                                                                         *)
(* Times of day are chrono NaiveTime values [secs, frac]: whole seconds    *)
(* since midnight and nanoseconds within the second.  Durations are chrono *)
(* Duration values [secs, nanos] with 0 <= nanos < 10^9, so that a         *)
(* negative duration of half a second is [secs |-> -1, nanos |-> 5*10^8].  *)
(* Strings are sequences of one-character strings.                         *)
(***************************************************************************)
EXTENDS Integers, Sequences, FiniteSets, TLC

VARIABLES
    args,              \* env::args(): program name followed by the arguments
    pc,                \* position of the single thread
    timestamps,        \* Option<Timestamps>: <<>> before Timestamps::new()
    clock,             \* last reading of the local wall clock
    slept,             \* seconds spent in thread::sleep since that reading
    wrapped,           \* the wall clock has passed midnight since the loop began
    upcomming,         \* Option<&TimestampType>: the field of timestamps referred to
    promoted,          \* fields assigned to upcomming_timestamp by the last selection
    now,               \* Option<NaiveTime>: the local `now` of the loop body
    diff_to_upcomming, \* Option<Duration>
    played,            \* alert() was called in the current iteration
    alerted,           \* fields for whose event alert() was called since the loop began
    out,               \* Option<status line>: what stdout shows
    fnIn               \* Option<input> of a function applied on its own

vars == <<args, pc, timestamps, clock, slept, wrapped, upcomming, promoted,
          now, diff_to_upcomming, played, alerted, out, fnIn>>

None == <<>>
Some(x) == <<x>>

----------------------------------------------------------------------------
(* Constants of the program *)

MIN_WAKEUP_TIME == <<"6", ":", "3", "0">>
MAX_WAKEUP_TIME == <<"8", ":", "2", "2">>
SUNRISE_MODIFIER_FOR_WAKE_UP_TIME_IN_MINUTES == 15
\* f32 constants 11.5 and 15.5, kept as exact fractions
OPTIMAL_EVENING_DINNER_TIME_SINCE_SUNRISE_IN_HOURS == [num |-> 23, den |-> 2]
OPTIMAL_SPORTS_TIME_SINCE_SUNRISE_IN_HOURS == 11
SUNRISE_MODIFIER_FOR_BED_TIME_IN_HOURS == [num |-> 31, den |-> 2]

\* the cast applied before the multiplication: (x as i64) * 3600
HoursTruncatedToSeconds(x) == (x.num \div x.den) * 3600

\* (x * 3600.0) as i64 for a non-negative f32 x that is exact as num/den
HoursToSecondsAsI64(x) == (x.num * 3600) \div x.den

SECS_PER_DAY == 86400
NANOS_PER_SEC == 1000000000

----------------------------------------------------------------------------
(* chrono::NaiveTime and chrono::Duration *)

NaiveTime(s, f) == [secs |-> s, frac |-> f]
Duration(s, n) == [secs |-> s, nanos |-> n]

DurationSeconds(s) == Duration(s, 0)
DurationMinutes(m) == Duration(m * 60, 0)
DurationHours(h) == Duration(h * 3600, 0)

\* derived Ord of NaiveTime: secs, then frac
TimeLess(a, b) == a.secs < b.secs \/ (a.secs = b.secs /\ a.frac < b.frac)

\* derived Ord of Duration: secs, then nanos; "Less", "Equal" or "Greater"
DurationCmp(a, b) ==
    IF a.secs < b.secs \/ (a.secs = b.secs /\ a.nanos < b.nanos) THEN "Less"
    ELSE IF a = b THEN "Equal"
    ELSE "Greater"

\* -d
DurationNeg(d) ==
    IF d.nanos = 0 THEN Duration(-d.secs, 0)
    ELSE Duration(-d.secs - 1, NANOS_PER_SEC - d.nanos)

\* Rust integer division and remainder: truncation toward zero
RustDiv(a, b) == IF a >= 0 THEN a \div b ELSE -((-a) \div b)
RustRem(a, b) == a - b * RustDiv(a, b)

\* Duration::num_seconds: whole seconds, truncated toward zero
num_seconds(d) == IF d.secs < 0 /\ d.nanos > 0 THEN d.secs + 1 ELSE d.secs
num_minutes(d) == RustDiv(num_seconds(d), 60)
num_hours(d) == RustDiv(num_seconds(d), 3600)
\* nanoseconds beyond num_seconds, with the sign of the duration
subsec_nanos(d) ==
    IF d.secs < 0 /\ d.nanos > 0 THEN d.nanos - NANOS_PER_SEC ELSE d.nanos

\* NaiveTime::signed_duration_since: self - rhs, signed, no wrap at midnight
signed_duration_since(self, rhs) ==
    LET secs == self.secs - rhs.secs
        frac == self.frac - rhs.frac
    IN  Duration(secs + (frac \div NANOS_PER_SEC), frac % NANOS_PER_SEC)

\* NaiveTime::overflowing_add_signed: <<time modulo 24 h, seconds of overflow>>
overflowing_add_signed(self, rhs) ==
    LET secs0 == self.secs + num_seconds(rhs)
        frac0 == self.frac + subsec_nanos(rhs)
        secs1 == IF frac0 < 0 THEN secs0 - 1
                 ELSE IF frac0 >= NANOS_PER_SEC THEN secs0 + 1 ELSE secs0
        frac1 == IF frac0 < 0 THEN frac0 + NANOS_PER_SEC
                 ELSE IF frac0 >= NANOS_PER_SEC THEN frac0 - NANOS_PER_SEC ELSE frac0
        secs_in_day == secs1 % SECS_PER_DAY
    IN  <<NaiveTime(secs_in_day, frac1), secs1 - secs_in_day>>

overflowing_sub_signed(self, rhs) ==
    LET r == overflowing_add_signed(self, DurationNeg(rhs))
    IN  <<r[1], -r[2]>>

----------------------------------------------------------------------------
(* NaiveTime::parse_from_str(s, "%H:%M") *)

IsDigit(c) == c \in {"0", "1", "2", "3", "4", "5", "6", "7", "8", "9"}

DigitVal(c) ==
    CASE c = "0" -> 0 [] c = "1" -> 1 [] c = "2" -> 2 [] c = "3" -> 3
      [] c = "4" -> 4 [] c = "5" -> 5 [] c = "6" -> 6 [] c = "7" -> 7
      [] c = "8" -> 8 [] c = "9" -> 9

\* a numeric item of at least one and at most two digits:
\* <<"ok", value, rest>> or <<"err">>
ScanNumber(s) ==
    IF Len(s) >= 2 /\ IsDigit(s[1]) /\ IsDigit(s[2])
    THEN <<"ok", 10 * DigitVal(s[1]) + DigitVal(s[2]), SubSeq(s, 3, Len(s))>>
    ELSE IF Len(s) >= 1 /\ IsDigit(s[1])
    THEN <<"ok", DigitVal(s[1]), SubSeq(s, 2, Len(s))>>
    ELSE <<"err">>

\* Some(time) when s is hour ":" minute with hour <= 23 and minute <= 59 and
\* nothing after it; None for an Err
parse_from_str(s) ==
    LET h == ScanNumber(s)
    IN  IF h[1] = "err" THEN None
        ELSE IF Len(h[3]) = 0 \/ h[3][1] # ":" THEN None
        ELSE LET m == ScanNumber(SubSeq(h[3], 2, Len(h[3])))
             IN  IF m[1] = "err" THEN None
                 ELSE IF Len(m[3]) # 0 THEN None
                 ELSE IF h[2] > 23 \/ m[2] > 59 THEN None
                 ELSE Some(NaiveTime(h[2] * 3600 + m[2] * 60, 0))

\* str::replace("\n", "")
replace_newline(s) == SelectSeq(s, LAMBDA c : c # "\n")

\* Ord::min alone: the lower bound forgotten
clamp_max_only(self, min, max) == IF TimeLess(max, self) THEN max ELSE self

\* Ord::clamp
clamp(self, min, max) ==
    IF TimeLess(self, min) THEN min
    ELSE IF TimeLess(max, self) THEN max
    ELSE self

\* gather_input with unwrap_or(min_wakeup_time) in place of expect
gather_input_or_default(argv) ==
    LET min_wakeup_time == parse_from_str(MIN_WAKEUP_TIME)[1]
        max_wakeup_time == parse_from_str(MAX_WAKEUP_TIME)[1]
    IN  IF Len(argv) = 2
        THEN LET parsed == parse_from_str(replace_newline(argv[2]))
             IN  IF parsed = None
                 THEN <<"ok", min_wakeup_time>>
                 ELSE <<"ok", clamp(parsed[1], min_wakeup_time, max_wakeup_time)>>
        ELSE <<"panic", "Wrong time format. Expected %H:%M (9:47) as first arg.">>

\* gather_input: <<"ok", sunrise>> or <<"panic", message>>
gather_input(argv) ==
    LET min_wakeup_time == parse_from_str(MIN_WAKEUP_TIME)[1]
        max_wakeup_time == parse_from_str(MAX_WAKEUP_TIME)[1]
    IN  IF Len(argv) = 2
        THEN LET parsed == parse_from_str(replace_newline(argv[2]))
             IN  IF parsed = None
                 THEN <<"panic", "Wrong parameter. Expected time string.">>
                 ELSE <<"ok", clamp(parsed[1], min_wakeup_time, max_wakeup_time)>>
        ELSE <<"panic", "Wrong time format. Expected %H:%M (9:47) as first arg.">>

----------------------------------------------------------------------------
(* TimestampType and Timestamps *)

TimestampType(variant, value) == [type |-> variant, time |-> value]

get_naive_time(t) == t.time

\* impl Debug for TimestampType
DebugFmt(t) ==
    CASE t.type = "WakeUpTime" -> "Wake up time"
      [] t.type = "OptimalSportTime" -> "Optimal sports time"
      [] t.type = "OptimalEveningDinnerTime" -> "Optimal evening dinner time"
      [] t.type = "BedTime" -> "Bedtime"
      [] t.type = "Sunrise" -> "Sunrise"

\* the struct literal with the wake-up modifier added to the sunrise
Derive_wake_after_sunrise(sunrise) ==
    [ sunrise |-> TimestampType("Sunrise", sunrise),
      wake_up_time |-> TimestampType("WakeUpTime",
          overflowing_add_signed(sunrise,
              DurationMinutes(SUNRISE_MODIFIER_FOR_WAKE_UP_TIME_IN_MINUTES))[1]),
      optimal_sport_time |-> TimestampType("OptimalSportTime",
          overflowing_add_signed(sunrise,
              DurationHours(OPTIMAL_SPORTS_TIME_SINCE_SUNRISE_IN_HOURS))[1]),
      optimal_evening_dinner_time |-> TimestampType("OptimalEveningDinnerTime",
          overflowing_add_signed(sunrise, DurationSeconds(HoursToSecondsAsI64(
              OPTIMAL_EVENING_DINNER_TIME_SINCE_SUNRISE_IN_HOURS)))[1]),
      bed_time |-> TimestampType("BedTime",
          overflowing_add_signed(sunrise, DurationSeconds(HoursToSecondsAsI64(
              SUNRISE_MODIFIER_FOR_BED_TIME_IN_HOURS)))[1]) ]

\* the struct literal of Timestamps::new for a gathered sunrise
Derive(sunrise) ==
    [ sunrise |-> TimestampType("Sunrise", sunrise),
      wake_up_time |-> TimestampType("WakeUpTime",
          overflowing_sub_signed(sunrise,
              DurationMinutes(SUNRISE_MODIFIER_FOR_WAKE_UP_TIME_IN_MINUTES))[1]),
      optimal_sport_time |-> TimestampType("OptimalSportTime",
          overflowing_add_signed(sunrise,
              DurationHours(OPTIMAL_SPORTS_TIME_SINCE_SUNRISE_IN_HOURS))[1]),
      optimal_evening_dinner_time |-> TimestampType("OptimalEveningDinnerTime",
          overflowing_add_signed(sunrise, DurationSeconds(HoursToSecondsAsI64(
              OPTIMAL_EVENING_DINNER_TIME_SINCE_SUNRISE_IN_HOURS)))[1]),
      bed_time |-> TimestampType("BedTime",
          overflowing_add_signed(sunrise, DurationSeconds(HoursToSecondsAsI64(
              SUNRISE_MODIFIER_FOR_BED_TIME_IN_HOURS)))[1]) ]

\* Timestamps::new: Some(Timestamps), or None when gather_input panics
New(argv) ==
    LET g == gather_input(argv)
    IN  IF g[1] = "ok" THEN Some(Derive(g[2])) ELSE None

\* the test with no second of grace: now < value
Promotes_strictly_before(value, reading) == TimeLess(reading, value)

\* get_upcomming_timestamp's test `Duration::seconds(1).cmp(&now.signed_duration_since(value))
\* == Ordering::Greater`
Promotes(value, reading) ==
    DurationCmp(DurationSeconds(1), signed_duration_since(reading, value)) = "Greater"

\* the three tests in day order, wake-up first: the last assignment is the
\* latest event still ahead
get_upcomming_timestamp_day_order(self, reading) ==
    LET p3 == /\ self.wake_up_time.type = "WakeUpTime"
              /\ Promotes(self.wake_up_time.time, reading)
        u3 == IF p3 THEN "wake_up_time" ELSE "bed_time"
        p2 == /\ self.optimal_sport_time.type = "OptimalSportTime"
              /\ Promotes(self.optimal_sport_time.time, reading)
        u2 == IF p2 THEN "optimal_sport_time" ELSE u3
        p1 == /\ self.optimal_evening_dinner_time.type = "OptimalEveningDinnerTime"
              /\ Promotes(self.optimal_evening_dinner_time.time, reading)
        u1 == IF p1 THEN "optimal_evening_dinner_time" ELSE u2
    IN  [ upcomming |-> u1,
          promoted |-> (IF p1 THEN {"optimal_evening_dinner_time"} ELSE {})
                       \cup (IF p2 THEN {"optimal_sport_time"} ELSE {})
                       \cup (IF p3 THEN {"wake_up_time"} ELSE {}) ]

\* the scan started from &self.sunrise, and bed time tested like the others
get_upcomming_timestamp_from_sunrise(self, reading) ==
    LET p0 == Promotes(self.bed_time.time, reading)
        u0 == IF p0 THEN "bed_time" ELSE "sunrise"
        p1 == Promotes(self.optimal_evening_dinner_time.time, reading)
        u1 == IF p1 THEN "optimal_evening_dinner_time" ELSE u0
        p2 == Promotes(self.optimal_sport_time.time, reading)
        u2 == IF p2 THEN "optimal_sport_time" ELSE u1
        p3 == Promotes(self.wake_up_time.time, reading)
        u3 == IF p3 THEN "wake_up_time" ELSE u2
    IN  [ upcomming |-> u3,
          promoted |-> (IF p1 THEN {"optimal_evening_dinner_time"} ELSE {})
                       \cup (IF p2 THEN {"optimal_sport_time"} ELSE {})
                       \cup (IF p3 THEN {"wake_up_time"} ELSE {}) ]

\* Timestamps::get_upcomming_timestamp for the clock reading it takes: the
\* field referred to by the result, and the fields assigned on the way
get_upcomming_timestamp(self, reading) ==
    LET p1 == /\ self.optimal_evening_dinner_time.type = "OptimalEveningDinnerTime"
              /\ Promotes(self.optimal_evening_dinner_time.time, reading)
        u1 == IF p1 THEN "optimal_evening_dinner_time" ELSE "bed_time"
        p2 == /\ self.optimal_sport_time.type = "OptimalSportTime"
              /\ Promotes(self.optimal_sport_time.time, reading)
        u2 == IF p2 THEN "optimal_sport_time" ELSE u1
        p3 == /\ self.wake_up_time.type = "WakeUpTime"
              /\ Promotes(self.wake_up_time.time, reading)
        u3 == IF p3 THEN "wake_up_time" ELSE u2
    IN  [ upcomming |-> u3,
          promoted |-> (IF p1 THEN {"optimal_evening_dinner_time"} ELSE {})
                       \cup (IF p2 THEN {"optimal_sport_time"} ELSE {})
                       \cup (IF p3 THEN {"wake_up_time"} ELSE {}) ]

\* the operands exchanged: first - second
get_abs_time_diff_swapped(first, second) == signed_duration_since(first, second)

\* Timestamps::get_abs_time_diff
get_abs_time_diff(first, second) == signed_duration_since(second, first)

\* the condition as a threshold: ten minutes or less
ShouldAlert_threshold(d) == num_hours(d) = 0 /\ num_minutes(d) <= 10

\* the condition of the `if` before alert()
ShouldAlert(d) == num_hours(d) = 0 /\ num_minutes(d) = 10 /\ num_seconds(d) = 0

\* the arguments with the minutes not reduced modulo 60
Render_total_minutes(t, d) ==
    [ label |-> DebugFmt(t),
      hours |-> num_hours(d),
      minutes |-> num_minutes(d),
      seconds |-> RustRem(num_seconds(d), 60) ]

\* the arguments with rem_euclid in place of %
Render_rem_euclid(t, d) ==
    [ label |-> DebugFmt(t),
      hours |-> num_hours(d),
      minutes |-> num_minutes(d) % 60,
      seconds |-> num_seconds(d) % 60 ]

\* the arguments of the status line's format!
Render(t, d) ==
    [ label |-> DebugFmt(t),
      hours |-> num_hours(d),
      minutes |-> RustRem(num_minutes(d), 60),
      seconds |-> RustRem(num_seconds(d), 60) ]

----------------------------------------------------------------------------
(* The environment: command lines and clock readings *)

\* clock readings are taken this many whole seconds around each event
MaxSkew == 1
\* command lines are built from hours 0..MaxHour and minutes 0..MaxMinute
MaxHour == 24
MaxMinute == 60

DigitChar(d) ==
    CASE d = 0 -> "0" [] d = 1 -> "1" [] d = 2 -> "2" [] d = 3 -> "3"
      [] d = 4 -> "4" [] d = 5 -> "5" [] d = 6 -> "6" [] d = 7 -> "7"
      [] d = 8 -> "8" [] d = 9 -> "9"

Padded(n) == <<DigitChar(n \div 10), DigitChar(n % 10)>>
Unpadded(n) == IF n < 10 THEN <<DigitChar(n)>> ELSE Padded(n)

\* the ways of writing hour h and minute m that the user may type
Written(h, m) ==
    { Unpadded(h) \o <<":">> \o Padded(m), Padded(h) \o <<":">> \o Padded(m),
      Unpadded(h) \o <<":">> \o Unpadded(m), Padded(h) \o <<":">> \o Unpadded(m) }

Malformed ==
    { <<>>, <<"7">>, <<"7", ":">>, <<":", "3", "0">>, <<"a", "b", "c">>,
      <<"7", ":", "0", "0", "x">>, <<"7", "0", "0">>, <<"7", ":", "0", "0", "0">>,
      <<"0", "0", "7", ":", "0", "0">>, <<"7", ":", "0", "0", ":", "0", "0">>,
      <<"-", "7", ":", "0", "0">>, <<"\n">>, <<"2", "4", ":", "0", "0">>,
      <<"7", ":", "6", "0">> }

ProgramName == <<"p", "r", "o", "m", "p", "t", "y">>

\* every command line tried at startup
StartupArgs ==
    LET strings == Malformed
                   \cup UNION { Written(h, m) : h \in 0..MaxHour, m \in 0..MaxMinute }
                   \cup { <<"7", ":", "0", "0", "\n">>, <<"2", "3", "\n", ":", "5", "9">> }
    IN  { <<ProgramName>> } \cup { <<ProgramName, s>> : s \in strings }
        \cup { <<ProgramName, <<"7", ":", "0", "0">>, <<"8", ":", "0", "0">> >> }

\* the command lines the countdown loop is explored for
LoopArgs ==
    { <<ProgramName>>,
      <<ProgramName, <<"7", ":", "0", "0">> >>,
      <<ProgramName, <<"5", ":", "1", "5">> >>,
      <<ProgramName, <<"2", "1", ":", "4", "0", "\n">> >>,
      <<ProgramName, <<"7", ":", "0", "0">>, <<"8", ":", "0", "0">> >> }
    \cup { <<ProgramName, s>> : s \in Malformed }

\* t shifted by a duration, modulo 24 h
Shift(t, d) == overflowing_add_signed(t, d)[1]

\* offsets from an event at which the clock is read
ReadingOffsets ==
    { Duration(k, 0) : k \in (-MaxSkew)..MaxSkew }
    \cup { Duration(-1, 500000000), Duration(0, 500000000), Duration(0, 999999999),
           Duration(-601, 0), Duration(-600, 0), Duration(-599, 0), Duration(-4200, 0) }

LoopFields ==
    {"wake_up_time", "optimal_sport_time", "optimal_evening_dinner_time", "bed_time"}

\* the clock readings explored for a set of timestamps
Readings(ts) ==
    { Shift(ts[f].time, d) : f \in LoopFields, d \in ReadingOffsets }
    \cup { NaiveTime(0, 0), NaiveTime(SECS_PER_DAY - 1, NANOS_PER_SEC - 1),
           parse_from_str(MIN_WAKEUP_TIME)[1] }

\* a reading r taken s seconds of sleep after reading c, on the same day
SameDayAfter(r, c, s) ==
    r.secs > c.secs + s \/ (r.secs = c.secs + s /\ r.frac >= c.frac)

\* Local::now().time(): any time of day; midnight has passed since the last
\* reading unless the reading is at least the slept time later
ReadClock(r, w) ==
    /\ w \/ SameDayAfter(r, clock, slept)
    /\ clock' = r
    /\ wrapped' = (wrapped \/ w)

----------------------------------------------------------------------------
(* The program *)

InitLocals ==
    /\ timestamps = None
    /\ clock = NaiveTime(0, 0)
    /\ slept = 0
    /\ wrapped = FALSE
    /\ upcomming = None
    /\ promoted = {}
    /\ now = None
    /\ diff_to_upcomming = None
    /\ played = FALSE
    /\ alerted = {}
    /\ out = None

Init == args \in LoopArgs /\ pc = "main" /\ fnIn = None /\ InitLocals

\* main: Timestamps::new() panics or builds the set; then the loop is entered
Main ==
    /\ pc = "main"
    /\ timestamps' = New(args)
    /\ pc' = IF timestamps' = None THEN "panicked" ELSE "get_upcomming"
    /\ UNCHANGED <<args, clock, slept, wrapped, upcomming, promoted, now,
                   diff_to_upcomming, played, alerted, out, fnIn>>

\* loop body, `let upcomming = timestamps.get_upcomming_timestamp();`
GetUpcomming ==
    /\ pc = "get_upcomming"
    /\ \E r \in Readings(timestamps[1]), w \in BOOLEAN :
          /\ ReadClock(r, w)
          /\ LET sel == get_upcomming_timestamp(timestamps[1], r)
             IN  /\ upcomming' = Some(sel.upcomming)
                 /\ promoted' = sel.promoted
    /\ slept' = 0
    /\ pc' = "now"
    /\ UNCHANGED <<args, timestamps, now, diff_to_upcomming, played, alerted, out,
                   fnIn>>

\* the same step, with the selected timestamp moved to the reading once it
\* has passed
ComputeDiff_rescheduling ==
    /\ pc = "now"
    /\ \E r \in Readings(timestamps[1]), w \in BOOLEAN :
          /\ ReadClock(r, w)
          /\ now' = Some(r)
          /\ diff_to_upcomming' =
                Some(get_abs_time_diff(r, get_naive_time(timestamps[1][upcomming[1]])))
          /\ timestamps' =
                IF TimeLess(timestamps[1][upcomming[1]].time, r)
                THEN Some([timestamps[1] EXCEPT ![upcomming[1]].time = r])
                ELSE timestamps
    /\ played' = ShouldAlert(diff_to_upcomming'[1])
    /\ alerted' = IF played' THEN alerted \cup {upcomming[1]} ELSE alerted
    /\ slept' = IF played' THEN 10 ELSE 0
    /\ pc' = "print"
    /\ UNCHANGED <<args, upcomming, promoted, out, fnIn>>

\* loop body, from `let now = Local::now().time();` to the end of the `if`
\* that calls alert() and sleeps 10 seconds
ComputeDiff ==
    /\ pc = "now"
    /\ \E r \in Readings(timestamps[1]), w \in BOOLEAN :
          /\ ReadClock(r, w)
          /\ now' = Some(r)
          /\ diff_to_upcomming' =
                Some(get_abs_time_diff(r, get_naive_time(timestamps[1][upcomming[1]])))
    /\ played' = ShouldAlert(diff_to_upcomming'[1])
    /\ alerted' = IF played' THEN alerted \cup {upcomming[1]} ELSE alerted
    /\ slept' = IF played' THEN 10 ELSE 0
    /\ pc' = "print"
    /\ UNCHANGED <<args, timestamps, upcomming, promoted, out, fnIn>>

\* the same step, leaving the loop once the time shown is negative
PrintStatus_until_passed ==
    /\ pc = "print"
    /\ out' = Some(Render(timestamps[1][upcomming[1]], diff_to_upcomming[1]))
    /\ slept' = slept + 1
    /\ pc' = IF diff_to_upcomming[1].secs < 0 THEN "returned" ELSE "get_upcomming"
    /\ upcomming' = None
    /\ promoted' = {}
    /\ now' = None
    /\ diff_to_upcomming' = None
    /\ played' = FALSE
    /\ UNCHANGED <<args, timestamps, clock, wrapped, alerted, fnIn>>

\* loop body, print! of the status line, flush, sleep of 1 second; the
\* locals of the iteration are dropped
PrintStatus ==
    /\ pc = "print"
    /\ out' = Some(Render(timestamps[1][upcomming[1]], diff_to_upcomming[1]))
    /\ slept' = slept + 1
    /\ pc' = "get_upcomming"
    /\ upcomming' = None
    /\ promoted' = {}
    /\ now' = None
    /\ diff_to_upcomming' = None
    /\ played' = FALSE
    /\ UNCHANGED <<args, timestamps, clock, wrapped, alerted, fnIn>>

Next == Main \/ GetUpcomming \/ ComputeDiff \/ PrintStatus

Spec == Init /\ [][Next]_vars

\* startup alone, for every command line
InitStartup == args \in StartupArgs /\ pc = "main" /\ fnIn = None /\ InitLocals

SpecStartup == InitStartup /\ [][Main]_vars

----------------------------------------------------------------------------
(* Functions applied on their own *)

\* every minute of the day, and the last nanosecond before midnight
AnchorTimes ==
    { NaiveTime(60 * k, 0) : k \in 0..((SECS_PER_DAY \div 60) - 1) }
    \cup { NaiveTime(SECS_PER_DAY - 1, NANOS_PER_SEC - 1) }

InitDerive ==
    /\ args = <<ProgramName>>
    /\ pc = "derive"
    /\ fnIn \in { Some(t) : t \in AnchorTimes }
    /\ InitLocals

\* the struct literal of Timestamps::new for the sunrise fnIn
ApplyDerive ==
    /\ pc = "derive"
    /\ timestamps' = Some(Derive(fnIn[1]))
    /\ pc' = "derived"
    /\ UNCHANGED <<args, clock, slept, wrapped, upcomming, promoted, now,
                   diff_to_upcomming, played, alerted, out, fnIn>>

SpecDerive == InitDerive /\ [][ApplyDerive]_vars

\* times of day in the night, the morning, at noon and before midnight
DiffTimes ==
    { NaiveTime(h * 3600 + k, f) :
        h \in {0, 6, 12, 23}, k \in 0..MaxSkew,
        f \in {0, 1, 500000000, NANOS_PER_SEC - 1} }
    \cup { NaiveTime(SECS_PER_DAY - 1, f) : f \in {0, NANOS_PER_SEC - 1} }

InitDiff ==
    /\ args = <<ProgramName>>
    /\ pc = "diff"
    /\ fnIn \in { Some(<<first, second>>) : first \in DiffTimes, second \in DiffTimes }
    /\ InitLocals

\* get_abs_time_diff(first, second) for the pair fnIn
ApplyDiff ==
    /\ pc = "diff"
    /\ diff_to_upcomming' = Some(get_abs_time_diff(fnIn[1][1], fnIn[1][2]))
    /\ pc' = "diffed"
    /\ UNCHANGED <<args, timestamps, clock, slept, wrapped, upcomming, promoted,
                   now, played, alerted, out, fnIn>>

SpecDiff == InitDiff /\ [][ApplyDiff]_vars

----------------------------------------------------------------------------
(* Properties *)

LoopPcs == {"get_upcomming", "now", "print"}

ts == timestamps[1]

\* the tag (enum variant) of the timestamp that upcomming refers to
UpcomingType == ts[upcomming[1]].type

\* a is at or before b
TimeLeq(a, b) == a.secs < b.secs \/ (a.secs = b.secs /\ a.frac <= b.frac)

\* the event time lies no further back than reading, or ahead of it
NotYetPassed(t, reading) == TimeLeq(reading, t)

\* the event time lies less than one second back from reading, or ahead of it
PassedLessThanOneSecond(t, reading) ==
    reading.secs < t.secs + 1 \/ (reading.secs = t.secs + 1 /\ reading.frac < t.frac)

\* the event time lies more than one second ahead of reading
MoreThanOneSecondAhead(t, reading) ==
    reading.secs + 1 < t.secs \/ (reading.secs + 1 = t.secs /\ reading.frac < t.frac)

\* the earliest in the day of a non-empty set of fields
EarliestField(cands) ==
    CHOOSE f \in cands : \A g \in cands : TimeLeq(ts[f].time, ts[g].time)

\* the tag of the earliest of the qualifying fields, bed time when there is none
EarliestOrBedTime(cands) ==
    IF cands = {} THEN "BedTime" ELSE ts[EarliestField(cands)].type

BeforeAllEvents(reading) ==
    \A f \in LoopFields : TimeLess(reading, ts[f].time)

\* C1 as stated: after every selection the selected tag is the earliest in day
\* order of WakeUp, OptimalSport, OptimalEveningDinner, BedTime whose time has
\* not yet passed at the clock reading of the selection, BedTime when none
\* qualifies, and WakeUp when the reading is before all of them.
C1_UpcomingIsEarliestNotPassed ==
    pc = "now" =>
        /\ UpcomingType =
              EarliestOrBedTime({ f \in LoopFields : NotYetPassed(ts[f].time, clock) })
        /\ BeforeAllEvents(clock) => UpcomingType = "WakeUpTime"

\* C1 amended: after every selection the selected tag is the earliest in day
\* order whose time lies less than one second before the clock reading of the
\* selection or ahead of it, BedTime when none qualifies, and WakeUp when the
\* reading is before all of them.
C1_UpcomingIsEarliestWithinASecond ==
    pc = "now" =>
        /\ UpcomingType =
              EarliestOrBedTime({ f \in LoopFields :
                                    PassedLessThanOneSecond(ts[f].time, clock) })
        /\ BeforeAllEvents(clock) => UpcomingType = "WakeUpTime"

\* an event selected although the clock reading is already past it
C1_Witness ==
    /\ pc = "now"
    /\ UpcomingType = "OptimalSportTime"
    /\ TimeLess(ts.optimal_sport_time.time, clock)

NonDefaultFields ==
    {"wake_up_time", "optimal_sport_time", "optimal_evening_dinner_time"}

\* C2 as stated: in a selection a non-default tag is promoted exactly when its
\* time is more than one second ahead of the clock reading.
C2_PromotedIffMoreThanOneSecondAhead ==
    pc = "now" =>
        \A f \in NonDefaultFields :
            f \in promoted <=> MoreThanOneSecondAhead(ts[f].time, clock)

\* C2 amended: in a selection a non-default tag is promoted exactly when the
\* clock reading is less than one second past the tag's time
\* (now - tag_time < 1 second); it is not promoted when now - tag_time >= 1 second.
C2_PromotedIffLessThanOneSecondPast ==
    pc = "now" =>
        \A f \in NonDefaultFields :
            f \in promoted <=> PassedLessThanOneSecond(ts[f].time, clock)

\* wake-up promoted at the last nanosecond of its second of grace
C2_Witness ==
    /\ pc = "now"
    /\ clock = NaiveTime(ts.wake_up_time.time.secs, NANOS_PER_SEC - 1)
    /\ promoted = NonDefaultFields

\* C3 as stated: in every iteration the alert is played exactly when the
\* remaining time shown is 0 hours, 10 minutes, 0 seconds.
C3_AlertIffTenMinutesLeft ==
    pc = "print" =>
        ( played <=>
            LET shown == Render(ts[upcomming[1]], diff_to_upcomming[1])
            IN  shown.hours = 0 /\ shown.minutes = 10 /\ shown.seconds = 0 )

\* the raw time typed on the command line, in seconds since midnight
TypedSeconds == parse_from_str(replace_newline(args[2]))[1].secs

Abs(x) == IF x < 0 THEN -x ELSE x

\* C4: the stored sunrise is the typed time when that lies in 06:30..08:22,
\* bounds included, and otherwise the nearer of 06:30 and 08:22; it always
\* lies in 06:30..08:22.
C4_AnchorClamped ==
    timestamps # None =>
        LET lo == 6 * 3600 + 30 * 60
            hi == 8 * 3600 + 22 * 60
            raw == TypedSeconds
            anchor == ts.sunrise.time
        IN  /\ anchor.frac = 0
            /\ lo <= anchor.secs /\ anchor.secs <= hi
            /\ (lo <= raw /\ raw <= hi) => anchor.secs = raw
            /\ ~(lo <= raw /\ raw <= hi) =>
                  anchor.secs = IF Abs(raw - lo) <= Abs(raw - hi) THEN lo ELSE hi

\* a time typed below the range is stored as 06:30
C4_Witness ==
    /\ timestamps # None
    /\ TypedSeconds = 3 * 3600 + 7 * 60
    /\ ts.sunrise.time = NaiveTime(6 * 3600 + 30 * 60, 0)

\* t is the time of day `delta` seconds from anchor, modulo 24 hours
IsOffsetBy(t, anchor, delta) ==
    /\ t.frac = anchor.frac
    /\ t.secs \in 0..(24 * 3600 - 1)
    /\ \E days \in {-1, 0, 1} : t.secs = anchor.secs + delta + days * 24 * 3600

\* C5: Timestamps::new yields one value per tag: WakeUp = anchor - 15 min,
\* OptimalSport = anchor + 11 h, OptimalEveningDinner = anchor + 11 h 30 min,
\* BedTime = anchor + 15 h 30 min, Sunrise = anchor, each modulo 24 hours
\* (anchor 07:00 gives WakeUp 06:45).
C5_DerivedOffsets ==
    pc = "derived" =>
        LET anchor == fnIn[1]
        IN  /\ DOMAIN ts = LoopFields \cup {"sunrise"}
            /\ ts.sunrise = [type |-> "Sunrise", time |-> anchor]
            /\ ts.wake_up_time.type = "WakeUpTime"
            /\ IsOffsetBy(ts.wake_up_time.time, anchor, -(15 * 60))
            /\ ts.optimal_sport_time.type = "OptimalSportTime"
            /\ IsOffsetBy(ts.optimal_sport_time.time, anchor, 11 * 3600)
            /\ ts.optimal_evening_dinner_time.type = "OptimalEveningDinnerTime"
            /\ IsOffsetBy(ts.optimal_evening_dinner_time.time, anchor, 11 * 3600 + 30 * 60)
            /\ ts.bed_time.type = "BedTime"
            /\ IsOffsetBy(ts.bed_time.time, anchor, 15 * 3600 + 30 * 60)
            /\ anchor = NaiveTime(7 * 3600, 0) =>
                  ts.wake_up_time.time = NaiveTime(6 * 3600 + 45 * 60, 0)

\* anchor 00:10: wake-up wraps back to 23:55 of the day before
C5_Witness ==
    /\ pc = "derived"
    /\ fnIn[1] = NaiveTime(10 * 60, 0)
    /\ ts.wake_up_time.time = NaiveTime(23 * 3600 + 55 * 60, 0)
    /\ ts.bed_time.time = NaiveTime(15 * 3600 + 40 * 60, 0)

\* C6: get_abs_time_diff(now, target) is target - now as a signed duration:
\* now plus the result is target with no wraparound, and the result is
\* positive, zero or negative as now is before, at or after target.
C6_DiffIsTargetMinusNow ==
    pc = "diffed" =>
        LET first == fnIn[1][1]
            second == fnIn[1][2]
            d == diff_to_upcomming[1]
            fracSum == first.frac + d.nanos
        IN  /\ d.nanos \in 0..(NANOS_PER_SEC - 1)
            /\ second.frac = fracSum % NANOS_PER_SEC
            /\ second.secs = first.secs + d.secs + (fracSum \div NANOS_PER_SEC)
            /\ (d.secs > 0 \/ (d.secs = 0 /\ d.nanos > 0)) <=> TimeLess(first, second)
            /\ (d.secs = 0 /\ d.nanos = 0) <=> first = second
            /\ d.secs < 0 <=> TimeLess(second, first)

\* from the last nanosecond of the day to one second past midnight: almost a
\* day backwards, not one second forwards
C6_Witness ==
    /\ pc = "diffed"
    /\ fnIn[1][1] = NaiveTime(SECS_PER_DAY - 1, NANOS_PER_SEC - 1)
    /\ fnIn[1][2] = NaiveTime(1, 0)
    /\ diff_to_upcomming[1] = Duration(-(SECS_PER_DAY - 1), 1)

\* the times as the user may type them: hour 0..23, ":", minute 0..59
ValidTimeStrings == UNION { Written(h, m) : h \in 0..23, m \in 0..59 }

\* a valid time string, newlines aside
ValidTimeString(s) == replace_newline(s) \in ValidTimeStrings

AnchorArgumentUsable == Len(args) = 2 /\ ValidTimeString(args[2])

\* C7: when the anchor argument is missing or no valid time string, the
\* process ends in the panic at startup: no timestamp set exists, the loop is
\* not entered, nothing is rendered and no alert is played.
C7_BadArgumentIsFatal ==
    ~AnchorArgumentUsable =>
        /\ pc \in {"main", "panicked"}
        /\ timestamps = None
        /\ upcomming = None /\ now = None /\ diff_to_upcomming = None
        /\ out = None
        /\ ~played

\* the panic on an hour out of range
C7_Witness ==
    /\ pc = "panicked"
    /\ Len(args) = 2
    /\ args[2] = <<"2", "4", ":", "0", "0">>
    /\ timestamps = None

\* C8: once in the loop the thread never leaves it, the step at each position
\* of the loop can always be taken whatever the clock has shown, and the step
\* that ends an iteration leads to the start of the next one.
C8_LoopForever ==
    /\ [][(pc \in LoopPcs) => (pc' \in LoopPcs)]_vars
    /\ [][(pc = "print") => (pc' = "get_upcomming")]_vars
    /\ [](pc = "get_upcomming" => ENABLED GetUpcomming)
    /\ [](pc = "now" => ENABLED ComputeDiff)
    /\ [](pc = "print" => ENABLED PrintStatus)

\* a new iteration begun after one that showed bed time as already passed
C8_Witness ==
    /\ pc = "get_upcomming"
    /\ out # None
    /\ out[1].label = "Bedtime"
    /\ out[1].hours < 0

\* C9: the timestamp selected, and the label rendered, is WakeUp, OptimalSport,
\* OptimalEveningDinner or BedTime, never Sunrise.
C9_SunriseNeverUpcoming ==
    /\ upcomming # None =>
          UpcomingType \in {"WakeUpTime", "OptimalSportTime",
                            "OptimalEveningDinnerTime", "BedTime"}
    /\ out # None =>
          out[1].label \in {"Wake up time", "Optimal sports time",
                            "Optimal evening dinner time", "Bedtime"}

\* bed time selected by default at the end of the day, and rendered
C9_Witness ==
    /\ pc = "get_upcomming"
    /\ out # None
    /\ out[1].label = "Bedtime"
    /\ clock = NaiveTime(SECS_PER_DAY - 1, NANOS_PER_SEC - 1)

\* C10: at every position of the loop the timestamp set is the one built at
\* startup from the anchor argument.
C10_TimestampsFrozen ==
    pc \in LoopPcs => timestamps = New(args)

\* an iteration completed whose selected event had already passed
C10_Witness ==
    /\ pc = "get_upcomming"
    /\ out # None
    /\ out[1].seconds < 0
    /\ timestamps = New(args)

\* the time of day h:m:s
HMS(h, m, s) == NaiveTime(h * 3600 + m * 60 + s, 0)

\* the selection has read the clock at reading, the set was built from
\* sunrise 07:00, and the remaining time is now computed at the same reading
ScenarioStep(reading) ==
    /\ pc = "now"
    /\ ts.sunrise.time = HMS(7, 0, 0)
    /\ clock = reading
    /\ now' = Some(reading)

\* C11: with anchor 07:00, when the clock reads 06:44:59 at the selection and
\* at the computation of the remaining time, WakeUp (06:45) is selected and
\* the remaining time is one second.
C11_OneSecondBeforeWakeUp ==
    [][ScenarioStep(HMS(6, 44, 59)) =>
          /\ UpcomingType = "WakeUpTime"
          /\ ts.wake_up_time.time = HMS(6, 45, 0)
          /\ diff_to_upcomming' = Some(Duration(1, 0))]_vars

\* the iteration at 06:44:59 about to render 0:00:01 to wake-up
C11_Witness ==
    /\ pc = "print"
    /\ ts.sunrise.time = HMS(7, 0, 0)
    /\ now = Some(HMS(6, 44, 59))
    /\ UpcomingType = "WakeUpTime"
    /\ diff_to_upcomming = Some(Duration(1, 0))
    /\ Render(ts[upcomming[1]], diff_to_upcomming[1]) =
          [label |-> "Wake up time", hours |-> 0, minutes |-> 0, seconds |-> 1]

\* C12 as stated: with anchor 07:00, when the clock reads 06:30:00, the
\* remaining time to WakeUp is 0:10:00 and the alert is played.
C12_TenMinutesLeftAtHalfPastSix ==
    [][ScenarioStep(HMS(6, 30, 0)) =>
          /\ UpcomingType = "WakeUpTime"
          /\ diff_to_upcomming' = Some(Duration(10 * 60, 0))
          /\ played']_vars

\* C12 amended: with anchor 07:00 (WakeUp 06:45), when the clock reads
\* 06:30:00, the remaining time to WakeUp is 0:15:00 and the alert is not
\* played.
C12_FifteenMinutesLeftAtHalfPastSix ==
    [][ScenarioStep(HMS(6, 30, 0)) =>
          /\ UpcomingType = "WakeUpTime"
          /\ ts.wake_up_time.time = HMS(6, 45, 0)
          /\ diff_to_upcomming' = Some(Duration(15 * 60, 0))
          /\ ~played']_vars

\* the iteration at 06:30:00 about to render 0:15:00 to wake-up, no alert played
C12_Witness ==
    /\ pc = "print"
    /\ ts.sunrise.time = HMS(7, 0, 0)
    /\ now = Some(HMS(6, 30, 0))
    /\ UpcomingType = "WakeUpTime"
    /\ diff_to_upcomming = Some(Duration(15 * 60, 0))
    /\ ~played

\* the whole seconds of a duration, fractions dropped toward zero
WholeSeconds(d) == IF d.secs < 0 /\ d.nanos # 0 THEN d.secs + 1 ELSE d.secs

\* C13: the status line shows hours, minutes and seconds that recompose to
\* the whole seconds of the remaining time, of either sign: minutes and
\* seconds are below 60 in magnitude (total minutes and total seconds modulo
\* 60) and no component has the opposite sign of the total.
C13_RenderedTripleRecomposes ==
    [][pc = "print" =>
          LET total == WholeSeconds(diff_to_upcomming[1])
              shown == out'[1]
          IN  /\ shown.hours * 3600 + shown.minutes * 60 + shown.seconds = total
              /\ Abs(shown.minutes) < 60
              /\ Abs(shown.seconds) < 60
              /\ total >= 0 =>
                    shown.hours >= 0 /\ shown.minutes >= 0 /\ shown.seconds >= 0
              /\ total <= 0 =>
                    shown.hours <= 0 /\ shown.minutes <= 0 /\ shown.seconds <= 0]_vars

\* bed time 22:30 shown at the last nanosecond of the day: -1:-29:-59
C13_Witness ==
    /\ out # None
    /\ out[1] = [label |-> "Bedtime", hours |-> -1, minutes |-> -29, seconds |-> -59]

\* C14 as stated: the clock reading used to compute the remaining time is the
\* reading the selection was made with.
C14_SingleClockReading ==
    [][pc = "now" => now' = Some(clock)]_vars

\* what the status line of the iteration shows
Shown == Render(ts[upcomming[1]], diff_to_upcomming[1])

TenMinutesShown(line) == line.hours = 0 /\ line.minutes = 10 /\ line.seconds = 0

\* C15 as stated: the status is rendered after selection and remaining time
\* are computed; when the remaining time is 0:10:00 the alert has been played
\* and 10 seconds slept before the rendering, and the next clock reading
\* comes at least 11 seconds after the alerting one, otherwise 1 second.
C15_AlertThenRenderThenSleep ==
    /\ pc = "print" =>
          /\ upcomming # None /\ diff_to_upcomming # None
          /\ played <=> TenMinutesShown(Shown)
          /\ slept = IF TenMinutesShown(Shown) THEN 10 ELSE 0
    /\ (pc = "get_upcomming" /\ out # None) =>
          slept = IF TenMinutesShown(out[1]) THEN 11 ELSE 1

\* C16: while the clock has not passed midnight, an alert is played for an
\* event at most once, and only in an iteration whose clock reading falls in
\* the second that lies 10 minutes before the event.
C16_AlertAtMostOncePerEvent ==
    [][(pc = "now" /\ played' /\ ~wrapped') =>
          /\ upcomming[1] \notin alerted
          /\ now'[1].secs = ts[upcomming[1]].time.secs - 10 * 60]_vars

\* the readings of two iterations fall 601 and 599 seconds before wake-up:
\* the second at 600 is skipped and no alert has been played
C16_Witness ==
    /\ pc = "print"
    /\ ~wrapped
    /\ out # None
    /\ out[1] = [label |-> "Wake up time", hours |-> 0, minutes |-> 10, seconds |-> 1]
    /\ UpcomingType = "WakeUpTime"
    /\ diff_to_upcomming = Some(Duration(599, 0))
    /\ ~played
    /\ alerted = {}

\* C17 as stated: when the selected tag is not BedTime, the remaining time
\* computed in the iteration is non-negative in whole seconds.
C17_RemainingNonNegative ==
    (pc = "print" /\ UpcomingType # "BedTime") =>
        WholeSeconds(diff_to_upcomming[1]) >= 0

\* C18: the derived times lie in one day in the order
\* 00:00 < WakeUp < Sunrise < OptimalSport < OptimalEveningDinner < BedTime < 24:00,
\* none of them wrapped around midnight.
C18_TimestampsOrderedWithinDay ==
    timestamps # None =>
        /\ TimeLess(HMS(0, 0, 0), ts.wake_up_time.time)
        /\ TimeLess(ts.wake_up_time.time, ts.sunrise.time)
        /\ TimeLess(ts.sunrise.time, ts.optimal_sport_time.time)
        /\ TimeLess(ts.optimal_sport_time.time, ts.optimal_evening_dinner_time.time)
        /\ TimeLess(ts.optimal_evening_dinner_time.time, ts.bed_time.time)
        /\ ts.bed_time.time.secs < 24 * 3600
        /\ ts.wake_up_time.time.secs = ts.sunrise.time.secs - 15 * 60
        /\ ts.bed_time.time.secs = ts.sunrise.time.secs + 15 * 3600 + 30 * 60

\* the latest sunrise, 08:22, from a later time typed: bed time is 23:52
C18_Witness ==
    /\ timestamps # None
    /\ TypedSeconds = 21 * 3600 + 40 * 60
    /\ ts.sunrise.time = HMS(8, 22, 0)
    /\ ts.bed_time.time = HMS(23, 52, 0)

\* the place of a label in the day, 0 for a label that is no event of the loop
Rank(label) ==
    CASE label = "Wake up time" -> 1
      [] label = "Optimal sports time" -> 2
      [] label = "Optimal evening dinner time" -> 3
      [] label = "Bedtime" -> 4
      [] OTHER -> 0

\* C19: while the clock has not passed midnight, the tag selected in an
\* iteration is never earlier in the order WakeUp, OptimalSport,
\* OptimalEveningDinner, BedTime than the tag rendered by the iteration
\* before, so BedTime stays selected once selected; and the remaining time to
\* BedTime is negative when the clock reads later than BedTime.
C19_SelectionMovesForward ==
    /\ [][(pc = "get_upcomming" /\ out # None /\ ~wrapped') =>
             Rank(DebugFmt(ts[upcomming'[1]])) >= Rank(out[1].label)]_vars
    /\ [](( /\ pc = "print"
            /\ UpcomingType = "BedTime"
            /\ TimeLess(ts.bed_time.time, now[1]) ) =>
             diff_to_upcomming[1].secs < 0)

\* after the evening dinner was shown, bed time is selected and already passed
C19_Witness ==
    /\ pc = "print"
    /\ ~wrapped
    /\ out # None
    /\ out[1].label = "Optimal evening dinner time"
    /\ UpcomingType = "BedTime"
    /\ diff_to_upcomming[1].secs < 0

\* C20 as stated: the minutes and the seconds shown each lie in 0..59.
C20_ComponentsWithinClockRange ==
    out # None => out[1].minutes \in 0..59 /\ out[1].seconds \in 0..59

\* C20 amended: the minutes and the seconds shown each lie in 0..59 when the
\* remaining time is not negative, and in -59..0 when it is negative.
C20_ComponentsWithinSignedRange ==
    [][pc = "print" =>
          LET shown == out'[1]
          IN  /\ diff_to_upcomming[1].secs >= 0 =>
                    shown.minutes \in 0..59 /\ shown.seconds \in 0..59
              /\ diff_to_upcomming[1].secs < 0 =>
                    shown.minutes \in (-59)..0 /\ shown.seconds \in (-59)..0]_vars

\* a status line with negative minutes and seconds about to be rendered
C20_Witness ==
    /\ pc = "print"
    /\ diff_to_upcomming[1].secs < 0
    /\ Shown.minutes < 0
    /\ Shown.seconds < 0

====
